---------------------------- MODULE Spec2Model ----------------------------
(***************************************************************************)
(* Model of the rooms-service core: room creation (the command handler of  *)
(* handlers.py, the use case of application/usecases.py and the room       *)
(* repository of database/repositories/room.py), the permission resolver,  *)
(* the outbox dispatcher and cleaner (services.py) over the SQL            *)
(* repositories of database/, and the pure functions of the domain.        *)
(*                                                                         *)
(* Modelling conventions.                                                  *)
(*  - Every function is translated statement by statement.  A statement    *)
(*    that always raises in Python (a call with a missing argument, `**`   *)
(*    applied to a list, building a set of unhashable objects) is modelled *)
(*    as raising, and the statements after it, which can never run, have   *)
(*    no action.                                                           *)
(*  - Names that drifted between files (an import of a renamed symbol, a   *)
(*    column called room_role_id read as role_id) are resolved to the      *)
(*    evident referent.                                                    *)
(*  - The database is a record of committed tables `db`; the writes of an  *)
(*    open transaction live in `session` until the transaction ends.       *)
(*  - Identifiers (uuid4) are strings; NULL is Python's None.              *)
(***************************************************************************)
EXTENDS Integers, Sequences, FiniteSets, TLC

\* ------------------------------------------------------------------ bounds
\* Number of create calls explored (each takes a fresh room id).
MaxCalls == 2
\* Initial-user lists of every length 0..SmallLen are tried, next to the
\* two lists around MAX_INITIAL_USERS.
SmallLen == 2
\* Outbox events appended in a run.
MaxEvents == 4
\* Rows per page of the dispatcher: OUTBOX_PROCESSOR_BATCH_SIZE (32) scaled
\* down so that a run has more than one page.
BatchSize == 2
\* Failed publishes of the batches of one event in a run: as many as
\* MAX_OUTBOX_RETRIES, so that an event can use its retries up.
MaxPublishFailures == 5
\* Last reading of the clock.
MaxClock == 3
\* Dispatcher instances that can run against one outbox.
Dispatchers == 2
\* Runs of the cleaner.
MaxRuns == 2
\* Longest permission code tried, in characters.
MaxCodeLen == 5
\* Priorities are tried up to this far on either side of each limit.
PriorityMargin == 2

\* ------------------------------------------------------- program constants
MAX_INITIAL_USERS == 50

MAX_OUTBOX_RETRIES == 5

PERMISSION_CODE_PARTS == 2

MIN_CODE_PARTS == 2

MIN_PRIORITY == 1

MAX_PRIORITY == 100

NULL == "null"

RoomType == {"direct", "group", "channel"}

MemberStatus == {"active", "muted", "banned"}

\* User ids: "1" is the caller, the others are users it may invite.
UserId(i) == ToString(i)

Creator == UserId(1)

\* The list <<"2", ..., n+1>> of n distinct users.
DistinctUsers(n) == [i \in 1..n |-> UserId(i + 1)]

\* Lists of distinct users other than the creator, a list with the creator
\* in it and a list with one user twice.
InitialUserLists ==
    {DistinctUsers(n) : n \in 0..SmallLen}
        \cup {DistinctUsers(MAX_INITIAL_USERS), DistinctUsers(MAX_INITIAL_USERS + 1)}
        \cup {<<Creator>>, <<UserId(2), UserId(2)>>}

\* The commands a client can send: name is NULL when the field is omitted.
Commands ==
    [name : {NULL, "chat"}, slug : {"chat-1"}, type : RoomType,
     initial_users : InitialUserLists]

Range(f) == {f[i] : i \in DOMAIN f}

RoomId(n) == "room-" \o ToString(n)

NoRoom == NULL

EmptyTables ==
    [rooms |-> {}, members |-> {}, outbox |-> {}, role_permissions |-> {},
     member_permissions |-> {}, room_roles |-> {}, room_role_permissions |-> {}]

VARIABLES
    db,            \* committed rows, by table
    system_roles,  \* names of the system roles present in reference data
    session,       \* rows written by the open transaction of the handler
    h_pc,          \* position of the handler call in flight
    h_cmd,         \* its command
    h_room,        \* the Room it validated (NULL before)
    next_id,       \* number of the next uuid4
    last,          \* the create call that finished last
    failed_rooms,  \* ids of the rooms whose create call failed
    checked,       \* the has_permission call that finished last
    dispatcher,    \* the periodic task of OutboxProcessor.process, per instance
    cycle,         \* what the current or last cycle of each instance has done
    sink,          \* event ids the publisher has accepted
    cleaner,       \* the periodic task of OutboxCleaner.cleanup
    batch_failures,\* per event id, the failed publishes of its batches
    applied        \* the pure function applied last, its argument and result

create_vars == <<db, system_roles, session, h_pc, h_cmd, h_room, next_id, last,
                 failed_rooms>>

perm_vars == <<checked>>

pure_vars == <<applied>>

outbox_vars == <<dispatcher, sink, batch_failures, cleaner, cycle>>

vars == <<db, system_roles, session, h_pc, h_cmd, h_room, next_id, last,
          failed_rooms, checked, dispatcher, sink, batch_failures, cleaner,
          cycle, applied>>

NoCall == [path |-> "none", cmd |-> NULL, created_by |-> NULL, room |-> NoRoom,
           outcome |-> "none", wrote |-> FALSE]

\* --------------------------------------------------------------- commands

\* core/commands.py CreateRoomCommand: `name: Name` is required, and
\* validate_initial_users rejects a direct room without exactly one user.
CoreCommandValid(cmd) ==
    /\ cmd.name # NULL
    /\ ~(cmd.type = "direct" /\ Len(cmd.initial_users) # 1)

\* domain/commands.py CreateRoomCommand: the fields only, no validator.
DomainCommandValid(cmd) == cmd.name # NULL

\* core/domain.py Room.validate_name
RoomValid(room) == ~(room.type = "direct" /\ room.name # NULL)

\* core/constants.py TYPE_TO_SYSTEM_ROLE_MAP
TYPE_TO_SYSTEM_ROLE_MAP(type) ==
    CASE type = "direct" -> "member"
      [] type = "group" -> "member"
      [] type = "channel" -> "guest"

\* ----------------------------------------------------------- transaction

\* A transaction block that commits however it is left.
TransactionExitAlwaysCommits(committed, pending, raised) ==
    [t \in DOMAIN committed |-> committed[t] \cup pending[t]]

\* database/uow.py SQLUnitOfWork.transaction: `async with session.begin()`
\* commits the pending rows when the block ends normally and rolls them
\* back when an exception leaves it.
TransactionExit(committed, pending, raised) ==
    IF raised THEN committed
    ELSE [t \in DOMAIN committed |-> committed[t] \cup pending[t]]

\* A create call ends: its transaction (if one was open) is left, the call is
\* recorded and the handler is idle again.
Finish(path, cmd, created_by, room, outcome) ==
    /\ db' = TransactionExit(db, session, outcome # "ok")
    /\ session' = EmptyTables
    /\ last' = [path |-> path, cmd |-> cmd, created_by |-> created_by,
                room |-> room, outcome |-> outcome,
                wrote |-> session # EmptyTables]
    /\ failed_rooms' = IF outcome # "ok" /\ room # NoRoom
                       THEN failed_rooms \cup {room} ELSE failed_rooms
    /\ h_pc' = "idle"
    /\ h_cmd' = NULL
    /\ h_room' = NULL

\* ------------------------------------------------- handler (handlers.py)

\* handlers.py:19-21: the Room built from the command, with a fresh id.
NewRoom(cmd, created_by, n) ==
    [id |-> RoomId(n), created_by |-> created_by, type |-> cmd.type,
     name |-> cmd.name, slug |-> cmd.slug]

\* handlers.py:24-38: one Member per initial user, bound to the default
\* role, and the owner appended last.
InitialMembers(room, initial_users, owner_role, default_role) ==
    [i \in 1..(Len(initial_users) + 1) |->
        IF i <= Len(initial_users)
        THEN [user_id |-> initial_users[i], room_id |-> room.id,
              role |-> default_role, status |-> "active"]
        ELSE [user_id |-> room.created_by, room_id |-> room.id,
              role |-> owner_role, status |-> "active"]]

\* database/repository.py:168-176 SQLMemberRepository.bulk_create:
\* `values` is a list and `insert(...).values(**values)` unpacks it as
\* keyword arguments, which raises TypeError for every list; TypeError is
\* none of the exceptions the method catches.
BulkCreate(members) == "TypeError"

\* The request reaches the handler: the command is parsed, the transaction
\* is opened and the Room is validated (handlers.py:14-21).
HandleStart(cmd, created_by) ==
    /\ h_pc = "idle"
    /\ next_id <= MaxCalls
    /\ \/ /\ ~CoreCommandValid(cmd)
          /\ Finish("handler", cmd, created_by, NoRoom, "ValidationError")
          /\ UNCHANGED next_id
       \/ /\ CoreCommandValid(cmd)
          /\ created_by = NULL
          /\ Finish("handler", cmd, created_by, NoRoom, "ValueError")
          /\ UNCHANGED next_id
       \/ /\ CoreCommandValid(cmd)
          /\ created_by # NULL
          /\ ~RoomValid(NewRoom(cmd, created_by, next_id))
          /\ Finish("handler", cmd, created_by, NoRoom, "ValidationError")
          /\ UNCHANGED next_id
       \/ /\ CoreCommandValid(cmd)
          /\ created_by # NULL
          /\ RoomValid(NewRoom(cmd, created_by, next_id))
          /\ h_pc' = "validated"
          /\ h_cmd' = cmd
          /\ h_room' = NewRoom(cmd, created_by, next_id)
          /\ next_id' = next_id + 1
          /\ session' = EmptyTables
          /\ UNCHANGED <<db, last, failed_rooms>>
    /\ UNCHANGED <<system_roles, perm_vars, pure_vars, outbox_vars>>

\* handlers.py:22 with database/repository.py:101-111: the Room row is added
\* to the session; IntegrityError is rolled back and raised as ConflictError,
\* any other SQLAlchemyError as CreationError.
HandleCreateRoom ==
    /\ h_pc = "validated"
    /\ \/ /\ session' = [session EXCEPT !.rooms = @ \cup {h_room}]
          /\ h_pc' = "room_added"
          /\ UNCHANGED <<db, h_cmd, h_room, last, failed_rooms>>
       \/ Finish("handler", h_cmd, h_room.created_by, h_room.id, "ConflictError")
       \/ Finish("handler", h_cmd, h_room.created_by, h_room.id, "CreationError")
    /\ UNCHANGED <<system_roles, next_id, perm_vars, pure_vars, outbox_vars>>

\* database/repository.py:214-221 SQLRoleRepository.get_by_name: the role of
\* that name, None when reference data has none; ReadingError when the
\* statement fails.
GetByName(name) == IF name \in system_roles THEN name ELSE NULL

\* handlers.py:23-26: `owner_role.id` of a missing role raises AttributeError.
HandleOwnerRole ==
    /\ h_pc = "room_added"
    /\ \/ /\ GetByName("owner") # NULL
          /\ h_pc' = "owner_resolved"
          /\ UNCHANGED <<db, session, h_cmd, h_room, last, failed_rooms>>
       \/ /\ GetByName("owner") = NULL
          /\ Finish("handler", h_cmd, h_room.created_by, h_room.id, "AttributeError")
       \/ Finish("handler", h_cmd, h_room.created_by, h_room.id, "ReadingError")
    /\ UNCHANGED <<system_roles, next_id, perm_vars, pure_vars, outbox_vars>>

\* handlers.py:27-29: the default role of the room's type.
HandleDefaultRole ==
    /\ h_pc = "owner_resolved"
    /\ \/ /\ GetByName(TYPE_TO_SYSTEM_ROLE_MAP(h_room.type)) # NULL
          /\ h_pc' = "default_resolved"
          /\ UNCHANGED <<db, session, h_cmd, h_room, last, failed_rooms>>
       \/ /\ GetByName(TYPE_TO_SYSTEM_ROLE_MAP(h_room.type)) = NULL
          /\ Finish("handler", h_cmd, h_room.created_by, h_room.id, "AttributeError")
       \/ Finish("handler", h_cmd, h_room.created_by, h_room.id, "ReadingError")
    /\ UNCHANGED <<system_roles, next_id, perm_vars, pure_vars, outbox_vars>>

\* handlers.py:30-39: the members are built and bulk_create raises; the
\* exception leaves the transaction block, and lines 40-46 never run.
HandleBulkCreate ==
    /\ h_pc = "default_resolved"
    /\ Finish("handler", h_cmd, h_room.created_by, h_room.id,
              BulkCreate(InitialMembers(h_room, h_cmd.initial_users, "owner",
                                        TYPE_TO_SYSTEM_ROLE_MAP(h_room.type))))
    /\ UNCHANGED <<system_roles, next_id, perm_vars, pure_vars, outbox_vars>>

\* ------------------------------- use case (application/usecases.py)

\* domain/aggragates.py:116-123 Room._define_default_role takes the room
\* type; Room.create (line 86) calls it with no argument, which raises
\* TypeError while the arguments of the constructor are evaluated.
DefineDefaultRoleNoArgument == "TypeError"

\* domain/aggragates.py:77-93 Room.create
RoomCreate(cmd, created_by) ==
    IF DefineDefaultRoleNoArgument = "TypeError"
    THEN [raised |-> "TypeError", room |-> NULL]
    ELSE [raised |-> NULL,
          room |-> [created_by |-> created_by, type |-> cmd.type,
                    name |-> cmd.name, slug |-> cmd.slug,
                    member_count |-> Len(cmd.initial_users) + 1]]

\* application/usecases.py:26-39 CreateRoomUseCase.execute: Room.create is
\* its first statement, and nothing after it runs.
Execute(cmd, created_by) ==
    /\ h_pc = "idle"
    /\ \/ /\ ~DomainCommandValid(cmd)
          /\ Finish("usecase", cmd, created_by, NoRoom, "ValidationError")
       \/ /\ DomainCommandValid(cmd)
          /\ Finish("usecase", cmd, created_by, NoRoom,
                    RoomCreate(cmd, created_by).raised)
    /\ UNCHANGED <<system_roles, next_id, perm_vars, pure_vars, outbox_vars>>

\* ------------------------------ permission resolver (services.py:81-92)

SeedRoom == RoomId(0)

PermissionCodes == {"message:send", "room:edit"}

\* core/domain.py:94-104 Permission: a pydantic model that is not frozen,
\* so its instances are unhashable.  (So is the Role of
\* domain/value_objects/objects.py:25-37.)
Permission(code) == [class |-> "Permission", code |-> code]

\* database/repository.py:178-191 get_by_room_and_user: the row of that room
\* and user, whatever its status.  The result of scalar_one_or_none is the
\* set of rows found: empty for None, else the one row that the unique
\* constraint on (user_id, room_id) allows.
GetByRoomAndUser(room_id, user_id) ==
    {m \in db.members : m.room_id = room_id /\ m.user_id = user_id}

\* database/repository.py:223-237 SQLRoleRepository.get_permissions: the
\* Permission objects granted to the role.
RoleGetPermissions(role) ==
    {Permission(g.code) : g \in {x \in db.role_permissions : x.role = role}}

\* database/repository.py:193-207 SQLMemberRepository.get_permissions.  The
\* filter is written `(member_id == id) & status == GRANT`, which Python
\* reads as `((member_id == id) & status) == GRANT`: the AND has a string
\* column as an operand.  A database that rejects the statement gives
\* ReadingError; one that accepts it gives the rows of the member that are
\* grants.  Both outcomes are kept.
MemberGetPermissions(member) ==
    {[raised |-> "ReadingError", value |-> {}],
     [raised |-> NULL,
      value |-> {Permission(p.code) :
                    p \in {x \in db.member_permissions :
                              /\ x.room_id = member.room_id
                              /\ x.user_id = member.user_id
                              /\ x.status = "grant"}}]}

\* Python's set(): building a set hashes every element, and hashing an
\* unhashable object raises TypeError.
PySet(objects) ==
    IF \E o \in objects : o.class \in {"Permission", "Role"}
    THEN [raised |-> "TypeError", value |-> {}]
    ELSE [raised |-> NULL, value |-> objects]

\* services.py:91-92: the two lists are turned into sets and united, and
\* the code (a string) is looked up among the Permission objects.  A string
\* equals no Permission object.
InAllPermissions(code, role_permissions, member_permissions) ==
    LET a == PySet(role_permissions)
        b == PySet(member_permissions)
    IN  IF a.raised # NULL THEN a.raised
        ELSE IF b.raised # NULL THEN b.raised
        ELSE IF \E o \in a.value \cup b.value : o.class = "str" /\ o.code = code
             THEN "true" ELSE "false"

\* api/depends.py:16-33 require_permission: 403 unless has_permission is
\* true; an exception of has_permission is the framework's 500.
RequirePermission(result) ==
    CASE result = "true" -> "200"
      [] result = "false" -> "403"
      [] OTHER -> "500"

Checked(room_id, user_id, code, member, result) ==
    checked' = [room_id |-> room_id, user_id |-> user_id, code |-> code,
                member |-> member, result |-> result,
                http |-> RequirePermission(result)]

\* services.py:81-92 PermissionService.has_permission
HasPermission(room_id, user_id, code) ==
    /\ \/ /\ GetByRoomAndUser(room_id, user_id) = {}
          /\ Checked(room_id, user_id, code, "none", "false")
       \/ \E member \in GetByRoomAndUser(room_id, user_id) :
             \E got \in MemberGetPermissions(member) :
                Checked(room_id, user_id, code, member.status,
                        IF got.raised # NULL THEN got.raised
                        ELSE InAllPermissions(
                                 code, RoleGetPermissions(member.role),
                                 got.value))
    /\ UNCHANGED <<create_vars, outbox_vars, pure_vars>>

\* -------------------------------------- outbox dispatcher (services.py)

EventId(n) == "event-" \o ToString(n)

RowId(n) == "row-" \o ToString(n)

OUTBOX_PROCESSOR_STATUSES == {"new", "pending"}

\* database/repository.py:43-52 SQLCRUDRepository.create, of the outbox
\* repository, in a transaction that commits: the n-th OutboxEvent row.  The
\* row's primary key `id` (database/base.py UUIDPrimary) is generated for
\* the row and is not the event's event_id.
OutboxRow(n) ==
    [id |-> RowId(n), event_id |-> EventId(n), aggregate_type |-> "Room",
     aggregate_id |-> SeedRoom, event_status |-> "new", retries |-> 0,
     created_at |-> n]

OutboxCreate ==
    LET n == 1 + Cardinality({k \in 1..MaxEvents :
                                \E r \in db.outbox : r.created_at >= k})
    IN  /\ n <= MaxEvents
        /\ db' = [db EXCEPT !.outbox = @ \cup {OutboxRow(n)}]
        /\ UNCHANGED <<system_roles, session, h_pc, h_cmd, h_room, next_id, last,
                       failed_rooms, perm_vars, pure_vars, outbox_vars>>

\* core/utils.py total_pages
total_pages(total_count, limit) ==
    IF total_count % limit # 0 THEN total_count \div limit + 1
    ELSE total_count \div limit

\* database/outbox.py:50-58 get_count_by_status
GetCountByStatus(statuses) ==
    Cardinality({r \in db.outbox : r.event_status \in statuses})

\* The rows are taken newest first.
GetByStatusNewestFirst(statuses, limit, page) ==
    LET rows == {r \in db.outbox : r.event_status \in statuses}
        rank(r) == Cardinality({x \in rows : x.created_at > r.created_at}) + 1
        offset == (page - 1) * limit
        got == {r \in rows : offset < rank(r) /\ rank(r) <= offset + limit}
    IN  [i \in 1..Cardinality(got) |-> CHOOSE r \in got : rank(r) = offset + i]

\* database/outbox.py:60-76 get_by_status: the rows of these statuses in
\* created_at order, `limit` of them from offset (page - 1) * limit.
GetByStatus(statuses, limit, page) ==
    LET rows == {r \in db.outbox : r.event_status \in statuses}
        rank(r) == Cardinality({x \in rows : x.created_at < r.created_at}) + 1
        offset == (page - 1) * limit
        got == {r \in rows : offset < rank(r) /\ rank(r) <= offset + limit}
    IN  [i \in 1..Cardinality(got) |-> CHOOSE r \in got : rank(r) = offset + i]

\* The filter is inverted: the rows whose id is not among the ids go.
BulkDeleteOthers(rows, ids) == {r \in rows : r.id \in ids}

\* The whole table is emptied, whatever the ids.
BulkDeleteEverything(rows, ids) == {}

\* database/outbox.py:97-103 bulk_delete: deletes the rows whose primary key
\* `id` is among the ids.
BulkDelete(rows, ids) == {r \in rows : r.id \notin ids}

\* Every row of the table is set pending, whatever the ids.
BulkUpdateEveryRow(rows, ids, args, increase_retries) ==
    {[raised |-> NULL,
      rows |-> {[r EXCEPT !.event_status = "pending"] : r \in rows}]}

\* database/outbox.py:78-95 bulk_update(ids, *args, increase_retries=True).
\* `args` is the tuple of the positional arguments after ids.  Line 81
\* raises ValueError unless there are as many of them as ids.  Line 83 adds
\* 0 to retries when increase_retries is true.  Line 89 hands values() a
\* positional argument together with a keyword: a library that rejects it
\* gives UpdateError, one that accepts it writes the first mapping of the
\* argument.  Both outcomes are kept.
BulkUpdate(rows, ids, args, increase_retries) ==
    IF Len(ids) # Len(args)
    THEN {[raised |-> "ValueError", rows |-> rows]}
    ELSE LET retries_counter == IF ~increase_retries THEN 1 ELSE 0
             pos(r) == CHOOSE i \in 1..Len(ids) : ids[i] = r.event_id
         IN  {[raised |-> "UpdateError", rows |-> rows],
              [raised |-> NULL,
               rows |-> {IF \E i \in 1..Len(ids) : ids[i] = r.event_id
                         THEN [r EXCEPT !.event_status = args[pos(r)][1].event_status,
                                        !.retries = @ + retries_counter]
                         ELSE r : r \in rows}]}

\* The dispatcher instances that can run against one outbox.
Instances == 1..Dispatchers

Idle == [pc |-> "sleeping", page |-> 0, pages |-> 0, batch |-> <<>>]

\* core/utils.py:34-52 schedule: the wrapper catches CancelledError only, so
\* any other exception of the cycle ends the loop and with it the task.
ScheduleAfter(raised, continue) ==
    IF raised # NULL
    THEN [pc |-> "dead", page |-> 0, pages |-> 0, batch |-> <<>>]
    ELSE continue

\* What a cycle has done so far: the event ids in the outbox when it
\* started, the rows it could select then (oldest first), the batches it
\* has handed to the publisher, in order, and the exception that ended it.
NoCycle == [present |-> {}, selected |-> <<>>, batches |-> <<>>, raised |-> NULL]

\* services.py:36-40: a cycle starts; it counts the rows to process and
\* returns when there is none.
ProcessStart(i) ==
    /\ dispatcher[i].pc = "sleeping"
    /\ LET count == GetCountByStatus(OUTBOX_PROCESSOR_STATUSES)
           pages == total_pages(count, BatchSize)
       IN  /\ \/ /\ pages = 0
                 /\ UNCHANGED dispatcher
              \/ /\ pages # 0
                 /\ dispatcher' = [dispatcher EXCEPT ![i] =
                       [pc |-> "paging", page |-> 1, pages |-> pages,
                        batch |-> <<>>]]
           /\ cycle' = [cycle EXCEPT ![i] =
                 [present |-> {r.event_id : r \in db.outbox},
                  selected |-> GetByStatus(OUTBOX_PROCESSOR_STATUSES, count, 1),
                  batches |-> <<>>, raised |-> NULL]]
    /\ UNCHANGED <<create_vars, perm_vars, pure_vars, sink, batch_failures, cleaner>>

NextPage(i) ==
    IF dispatcher[i].page < dispatcher[i].pages
    THEN [pc |-> "paging", page |-> dispatcher[i].page + 1,
          pages |-> dispatcher[i].pages, batch |-> <<>>]
    ELSE Idle

\* services.py:41-44: the page of the cycle is fetched.
FetchPage(i) ==
    /\ dispatcher[i].pc = "paging"
    /\ dispatcher' = [dispatcher EXCEPT ![i] =
          [@ EXCEPT !.pc = "fetched",
                    !.batch = GetByStatus(OUTBOX_PROCESSOR_STATUSES, BatchSize,
                                          dispatcher[i].page)]]
    /\ UNCHANGED <<create_vars, perm_vars, pure_vars, sink, batch_failures,
                   cleaner, cycle>>

\* services.py:45-53: the batch is published; on success the events are
\* deleted by event id, on FastStreamException they are handed to
\* bulk_update.  bulk_delete turns a storage error into DeletionError and
\* bulk_update into UpdateError; neither is caught here.
PublishPage(i) ==
    /\ dispatcher[i].pc = "fetched"
    /\ LET outbox_events == dispatcher[i].batch
           event_ids == [k \in DOMAIN outbox_events |-> outbox_events[k].event_id]
           statuses == [k \in DOMAIN event_ids |-> [event_status |-> "pending"]]
           Ended(raised) ==
               [cycle EXCEPT ![i].batches = Append(@, outbox_events),
                             ![i].raised = raised]
       IN  \/ /\ sink' = sink \cup Range(event_ids)
              /\ db' = [db EXCEPT !.outbox = BulkDelete(@, Range(event_ids))]
              /\ dispatcher' = [dispatcher EXCEPT ![i] = NextPage(i)]
              /\ cycle' = Ended(NULL)
              /\ UNCHANGED batch_failures
           \/ /\ sink' = sink \cup Range(event_ids)
              /\ dispatcher' = [dispatcher EXCEPT ![i] =
                    ScheduleAfter("DeletionError", NextPage(i))]
              /\ cycle' = Ended("DeletionError")
              /\ UNCHANGED <<db, batch_failures>>
           \/ /\ \A e \in Range(event_ids) : batch_failures[e] < MaxPublishFailures
              /\ batch_failures' =
                    [e \in DOMAIN batch_failures |->
                        IF e \in Range(event_ids)
                        THEN batch_failures[e] + 1 ELSE batch_failures[e]]
              /\ \E r \in BulkUpdate(db.outbox, event_ids, <<statuses>>, TRUE) :
                    /\ db' = [db EXCEPT !.outbox = r.rows]
                    /\ dispatcher' = [dispatcher EXCEPT ![i] =
                          ScheduleAfter(r.raised, NextPage(i))]
                    /\ cycle' = Ended(r.raised)
              /\ UNCHANGED sink
    /\ UNCHANGED <<system_roles, session, h_pc, h_cmd, h_room, next_id, last,
                   failed_rooms, perm_vars, pure_vars, cleaner>>

\* --------------------------------- outbox cleaner (services.py:56-74)

\* services.py:21
OUTBOX_CLEANUP_STATUSES == {"failed"}

CleanerIdle(runs) == [pc |-> "sleeping", page |-> 0, pages |-> 0, runs |-> runs]

\* services.py:63-67: a run starts; it counts the failed rows and returns
\* when there is none.
CleanupStart ==
    /\ cleaner.pc = "sleeping"
    /\ cleaner.runs < MaxRuns
    /\ LET count == GetCountByStatus(OUTBOX_CLEANUP_STATUSES)
           pages == total_pages(count, BatchSize)
       IN  \/ /\ pages = 0
              /\ cleaner' = CleanerIdle(cleaner.runs + 1)
           \/ /\ pages # 0
              /\ cleaner' = [pc |-> "paging", page |-> 1, pages |-> pages,
                             runs |-> cleaner.runs]
    /\ UNCHANGED <<create_vars, perm_vars, pure_vars, dispatcher, sink,
                   batch_failures, cycle>>

\* services.py:68-74: one page of the run.  The page of failed rows is
\* fetched and their event ids are handed to bulk_delete, whose
\* DeletionError, at a storage error, nothing catches.
CleanupPage ==
    /\ cleaner.pc = "paging"
    /\ LET outbox_events == GetByStatus(OUTBOX_CLEANUP_STATUSES, BatchSize,
                                        cleaner.page)
           event_ids == {outbox_events[i].event_id : i \in DOMAIN outbox_events}
       IN  \/ /\ db' = [db EXCEPT !.outbox = BulkDelete(@, event_ids)]
              /\ cleaner' = IF cleaner.page < cleaner.pages
                            THEN [cleaner EXCEPT !.page = @ + 1]
                            ELSE CleanerIdle(cleaner.runs + 1)
           \/ /\ UNCHANGED db
              /\ cleaner' = [pc |-> "dead", page |-> 0, pages |-> 0,
                             runs |-> cleaner.runs]
    /\ UNCHANGED <<system_roles, session, h_pc, h_cmd, h_room, next_id, last,
                   failed_rooms, perm_vars, pure_vars, dispatcher, sink,
                   batch_failures, cycle>>

\* ------------------- room repository (database/repositories/room.py)

\* The permission codes of the reference data (table `permissions`, whose
\* column `code` is unique), and a code that is not among them.
ReferencePermissionCodes == PermissionCodes

AbsentCode == "room:burn"

\* domain/value_objects/objects.py:40-56 Permission: it defines __hash__ (of
\* its code), so it is hashable.
ValuePermission(code) == [class |-> "objects.Permission", code |-> code]

PermissionLists ==
    {<<>>, <<ValuePermission("message:send")>>,
     <<ValuePermission("message:send"), ValuePermission("room:edit")>>,
     <<ValuePermission("message:send"), ValuePermission("message:send")>>,
     <<ValuePermission(AbsentCode)>>,
     <<ValuePermission("message:send"), ValuePermission(AbsentCode)>>}

\* A check that every code was found is left out.
AddRoomRolePermissionsUnchecked(room_role_id, permissions) ==
    [raised |-> NULL,
     rows |-> {[room_role_id |-> room_role_id, code |-> p.code] :
                  p \in Range(permissions)}]

\* database/repositories/room.py:87-116 __add_room_role_permissions: the
\* permissions of these codes are selected; unless there are as many as
\* distinct permissions asked for, ValueError; else one grant row per
\* permission found.
AddRoomRolePermissions(room_role_id, permissions) ==
    LET codes == {p.code : p \in Range(permissions)}
        permission_models == codes \cap ReferencePermissionCodes
    IN  IF Cardinality(permission_models) # Cardinality(PySet(Range(permissions)).value)
        THEN [raised |-> "ValueError", rows |-> {}]
        ELSE [raised |-> NULL,
              rows |-> {[room_role_id |-> room_role_id, code |-> c] :
                           c \in permission_models}]

\* domain/value_objects/objects.py:25-37 Role
Role(name, permissions) ==
    [class |-> "Role", type |-> "system", name |-> name,
     permissions |-> permissions]

RoleLists ==
    {<<>>, <<Role("owner", <<ValuePermission("message:send")>>)>>,
     <<Role("owner", <<ValuePermission("message:send")>>),
       Role("member", <<ValuePermission(AbsentCode)>>)>>}

MemberLists == {<<>>, <<[user_id |-> UserId(2), role_name |-> "member"]>>}

\* The RoomCreate the repository is handed: id, roles and members next to
\* the fields of the room.
RoomCreates ==
    [name : {"chat"}, slug : {NULL, "chat-1"}, type : {"group"},
     roles : RoleLists, members : MemberLists]

\* database/repositories/room.py:32-33: the RoomModel is built and added to
\* the session.
RepositoryCreateStart(room) ==
    /\ h_pc = "idle"
    /\ next_id <= MaxCalls
    /\ h_pc' = "repository_added"
    /\ h_cmd' = room
    /\ h_room' = NewRoom(room, Creator, next_id)
    /\ next_id' = next_id + 1
    /\ session' = [EmptyTables EXCEPT !.rooms = {NewRoom(room, Creator, next_id)}]
    /\ UNCHANGED <<db, system_roles, last, failed_rooms, perm_vars, outbox_vars,
                   pure_vars>>

\* database/repositories/room.py:34-46.  __create_room_roles iterates over
\* set(roles) (line 66), which raises TypeError for any role, a Role being
\* unhashable; with no role it returns an empty map, and __save_members
\* (line 140) raises KeyError for any member.  Neither is an SQLAlchemyError:
\* the exception leaves create without rollback or commit, and the session
\* is discarded with the request.  With no role and no member the Room is
\* flushed and committed, unless the flush fails.
RepositoryCreateFinish ==
    /\ h_pc = "repository_added"
    /\ \/ /\ PySet(Range(h_cmd.roles)).raised # NULL
          /\ Finish("repository", h_cmd, h_room.created_by, h_room.id,
                    PySet(Range(h_cmd.roles)).raised)
       \/ /\ PySet(Range(h_cmd.roles)).raised = NULL
          /\ h_cmd.members # <<>>
          /\ Finish("repository", h_cmd, h_room.created_by, h_room.id, "KeyError")
       \/ /\ PySet(Range(h_cmd.roles)).raised = NULL
          /\ h_cmd.members = <<>>
          /\ \E outcome \in {"ok", "ConflictError", "CreationError"} :
                Finish("repository", h_cmd, h_room.created_by, h_room.id, outcome)
    /\ UNCHANGED <<system_roles, next_id, perm_vars, outbox_vars, pure_vars>>

\* __add_room_role_permissions applied to a list of permissions.
ApplyAddRoomRolePermissions ==
    \E permissions \in PermissionLists :
        /\ applied' = [fn |-> "__add_room_role_permissions", arg |-> permissions,
                       out |-> AddRoomRolePermissions("room-role-1", permissions)]
        /\ UNCHANGED <<create_vars, perm_vars, outbox_vars>>

\* ------------------------------------------------------ pure functions

\* `match` with the sequence pattern `case RoomType.DIRECT, RoomType.GROUP:`.
\* A sequence pattern matches a sequence of that length that is not a str;
\* a RoomType is a str (StrEnum), so no RoomType is matched by it.
MatchesSequencePattern(subject, pattern) ==
    /\ subject \notin RoomType
    /\ subject = pattern

\* domain/aggragates.py:116-123 Room._define_default_role(type): the first
\* case is a sequence pattern, the second a value pattern; a subject that
\* matches no case leaves the function without a return, which gives None.
DefineDefaultRole(type) ==
    IF MatchesSequencePattern(type, <<"direct", "group">>) THEN "member"
    ELSE IF type = "channel" THEN "guest"
    ELSE NULL

\* domain/rules.py:38-50 get_default_system_role_by_room
get_default_system_role_by_room(room_type) ==
    CASE room_type = "direct" -> "member"
      [] room_type = "group" -> "member"
      [] room_type = "channel" -> "guest"

\* A string is the sequence of its characters.
Chars == {":", "a"}

Strings == UNION {[1..n -> Chars] : n \in 0..MaxCodeLen}

\* Python's str.split(sep) for a one-character separator: the parts between
\* the separators, empty parts included; one part more than separators.
RECURSIVE Split(_, _)
Split(str, sep) ==
    IF \A i \in 1..Len(str) : str[i] # sep THEN <<str>>
    ELSE LET k == CHOOSE i \in 1..Len(str) :
                     str[i] = sep /\ \A j \in 1..(i - 1) : str[j] # sep
         IN  <<SubSeq(str, 1, k - 1)>> \o Split(SubSeq(str, k + 1, Len(str)), sep)

\* core/value_objects.py:89-102 and domain/value_objects.py:167-180
\* PermissionCode.validate: the code has a ':' and splits into at least
\* PERMISSION_CODE_PARTS parts, empty parts counted.
PermissionCodeValidate(code) ==
    IF \A i \in 1..Len(code) : code[i] # ":"
    THEN [raised |-> "ValueError", value |-> <<>>]
    ELSE IF Len(Split(code, ":")) < PERMISSION_CODE_PARTS
    THEN [raised |-> "ValueError", value |-> <<>>]
    ELSE [raised |-> NULL, value |-> code]

\* domain/value_objects/primitives.py:77-94 PermissionCode.validate: the
\* parts that are not empty are counted.
PrimitivesPermissionCodeValidate(code) ==
    LET code_parts == Split(code, ":")
        no_empty_code_parts == SelectSeq(code_parts, LAMBDA part : part # <<>>)
    IN  IF \A i \in 1..Len(code) : code[i] # ":"
        THEN [raised |-> "ValueError", value |-> <<>>]
        ELSE IF Len(no_empty_code_parts) < MIN_CODE_PARTS
        THEN [raised |-> "ValueError", value |-> <<>>]
        ELSE [raised |-> NULL, value |-> code]

Applied(fn, arg, out) == [fn |-> fn, arg |-> arg, out |-> out]

ApplyTypeToSystemRoleMap ==
    \E type \in RoomType :
        /\ applied' = Applied("TYPE_TO_SYSTEM_ROLE_MAP", type, TYPE_TO_SYSTEM_ROLE_MAP(type))
        /\ UNCHANGED <<create_vars, perm_vars, outbox_vars>>

ApplyGetDefaultSystemRoleByRoom ==
    \E type \in RoomType :
        /\ applied' = Applied("get_default_system_role_by_room", type,
                            get_default_system_role_by_room(type))
        /\ UNCHANGED <<create_vars, perm_vars, outbox_vars>>

ApplyDefineDefaultRole ==
    \E type \in RoomType :
        /\ applied' = Applied("_define_default_role", type, DefineDefaultRole(type))
        /\ UNCHANGED <<create_vars, perm_vars, outbox_vars>>

ApplyPermissionCode ==
    \E code \in Strings :
        /\ applied' = Applied("PermissionCode", code, PermissionCodeValidate(code))
        /\ UNCHANGED <<create_vars, perm_vars, outbox_vars>>

ApplyPrimitivesPermissionCode ==
    \E code \in Strings :
        /\ applied' = Applied("primitives.PermissionCode", code,
                            PrimitivesPermissionCodeValidate(code))
        /\ UNCHANGED <<create_vars, perm_vars, outbox_vars>>

\* The integers a priority is built from: those around the two limits, one
\* in the middle and two far off.
Priorities ==
    ((MIN_PRIORITY - PriorityMargin)..(MIN_PRIORITY + PriorityMargin))
        \cup ((MAX_PRIORITY - PriorityMargin)..(MAX_PRIORITY + PriorityMargin))
        \cup {-100, 50, 1000}

\* The upper limit itself is refused.
RolePriorityValidateExclusive(value) ==
    IF ~(MIN_PRIORITY <= value /\ value < MAX_PRIORITY)
    THEN [raised |-> "ValueError", value |-> {}]
    ELSE [raised |-> NULL, value |-> {value}]

\* domain/value_objects/primitives.py:41-53 RolePriority.validate (the same
\* comparison is in domain/value_objects.py:135-143 and
\* core/value_objects.py:57-66): ValueError outside the limits, else the
\* value.  `value` of the result is the set of what is returned.
RolePriorityValidate(value) ==
    IF ~(MIN_PRIORITY <= value /\ value <= MAX_PRIORITY)
    THEN [raised |-> "ValueError", value |-> {}]
    ELSE [raised |-> NULL, value |-> {value}]

\* domain/value_objects/primitives.py:20-23 _IntPrimitiveValidator.__new__:
\* the int built from what validate returns.
RolePriorityNew(value) == RolePriorityValidate(value)

ApplyRolePriority ==
    \E value \in Priorities :
        /\ applied' = Applied("RolePriority", value, RolePriorityNew(value))
        /\ UNCHANGED <<create_vars, perm_vars, outbox_vars>>

\* core/events.py:50-63 RoomCreatedEvent: the fields without a default, of
\* those the Room of this model has, and the three lists.  (`settings` is
\* left out on both sides.)
RoomCreatedEventRequired ==
    {"id", "name", "type", "slug", "created_by", "members", "roles",
     "roles_permissions"}

\* handlers.py:48-65 _prepare_outbox_event: RoomCreatedEvent is validated
\* from the dump of the room with the keys "members" and "role_permissions"
\* added; a required field that is no key of it is a validation error.
\* Else the event's dump is the payload of the OutboxEvent.
PrepareOutboxEvent(created_room, initial_members, role_permissions) ==
    LET keys == (DOMAIN created_room) \cup {"members", "role_permissions"}
    IN  IF RoomCreatedEventRequired \ keys # {}
        THEN [raised |-> "ValidationError", payload |-> {}]
        ELSE [raised |-> NULL,
              payload |-> {[id |-> created_room.id, members |-> initial_members,
                            role_permissions |-> role_permissions]}]

\* The snapshots asked for: of the room of a command with few initial
\* users, its members, and the role permissions read for it.
SnapshotArguments ==
    {[created_room |-> NewRoom(cmd, Creator, 1),
      initial_members |->
          InitialMembers(NewRoom(cmd, Creator, 1), cmd.initial_users, "owner",
                         TYPE_TO_SYSTEM_ROLE_MAP(cmd.type)),
      role_permissions |-> role_permissions] :
        cmd \in {c \in Commands : Len(c.initial_users) <= SmallLen},
        role_permissions \in
            {<<>>, <<[role_name |-> "owner", permission_code |-> "message:send"]>>}}

ApplyPrepareOutboxEvent ==
    \E arg \in SnapshotArguments :
        /\ applied' = Applied("_prepare_outbox_event", arg,
                              PrepareOutboxEvent(arg.created_room,
                                                 arg.initial_members,
                                                 arg.role_permissions))
        /\ UNCHANGED <<create_vars, perm_vars, outbox_vars>>

\* Readings of the clock (time.time()).
Clock == 1..MaxClock

\* The outbox events whose key is read: event_id, aggregate and the clock
\* reading at which the event was created.
OutboxEvents ==
    [event_id : {EventId(1), EventId(2)}, aggregate_type : {"Room"},
     aggregate_id : {SeedRoom, RoomId(1)}, created_at : Clock]

\* core/events.py:41-43, domain/events.py:71-73 OutboxEvent.dedup_key: a
\* computed field, evaluated at every access and serialisation of the
\* event, with the clock read at that moment.
dedup_key(self, now) ==
    ToString(now) \o "-" \o self.aggregate_type \o "-" \o self.aggregate_id

\* The key of an event, read when the clock shows `now`.
ApplyDedupKey ==
    \E event \in OutboxEvents, now \in Clock :
        /\ now >= event.created_at
        /\ applied' = Applied("dedup_key", [event |-> event, now |-> now],
                              dedup_key(event, now))
        /\ UNCHANGED <<create_vars, perm_vars, outbox_vars>>

\* ------------------------------------------------------------ specification

SystemRoleSets ==
    {{"owner", "member", "guest"}, {"member", "guest"}, {"owner", "guest"},
     {"owner", "member"}}

CreateIdle ==
    /\ session = EmptyTables
    /\ h_pc = "idle"
    /\ h_cmd = NULL
    /\ h_room = NULL
    /\ next_id = 1
    /\ last = NoCall
    /\ failed_rooms = {}

NotApplied == [fn |-> "none", arg |-> NULL, out |-> NULL]

NoCheck == [room_id |-> NULL, user_id |-> NULL, code |-> NULL, member |-> "none",
            result |-> "none", http |-> "none"]

OutboxIdle ==
    /\ dispatcher = [i \in Instances |-> Idle]
    /\ cycle = [i \in Instances |-> NoCycle]
    /\ cleaner = CleanerIdle(0)
    /\ sink = {}
    /\ batch_failures = [e \in {EventId(n) : n \in 1..MaxEvents} |-> 0]

\* Room creation starts from empty tables; the reference data may lack a
\* system role.
Init ==
    /\ db = EmptyTables
    /\ system_roles \in SystemRoleSets
    /\ CreateIdle
    /\ checked = NoCheck
    /\ applied = NotApplied
    /\ OutboxIdle

CreateNext ==
    \/ \E cmd \in Commands, created_by \in {NULL, Creator} :
          HandleStart(cmd, created_by)
    \/ HandleCreateRoom
    \/ HandleOwnerRole
    \/ HandleDefaultRole
    \/ HandleBulkCreate
    \/ \E cmd \in Commands : Execute(cmd, Creator)

Next == CreateNext

Spec == Init /\ [][Next]_vars

\* The tables the resolver reads: a room with its owner "1", a membership of
\* user "2" (absent, or of any status) bound to the role "member", the grants
\* of that role and the overrides of that member.
MemberRow(user_id, role, status) ==
    [user_id |-> user_id, room_id |-> SeedRoom, role |-> role, status |-> status]

SeedMembers ==
    {{MemberRow(Creator, "owner", "active")}}
        \cup {{MemberRow(Creator, "owner", "active"),
               MemberRow(UserId(2), "member", st)} : st \in MemberStatus}

SeedRoleGrants ==
    {{[role |-> "member", code |-> c] : c \in cs} : cs \in SUBSET PermissionCodes}

SeedOverrides ==
    {{[room_id |-> SeedRoom, user_id |-> UserId(2), code |-> c, status |-> f[c]] :
        c \in {x \in PermissionCodes : f[x] # "none"}} :
        f \in [PermissionCodes -> {"none", "grant", "deny"}]}

PermInit ==
    /\ \E members \in SeedMembers, grants \in SeedRoleGrants,
          overrides \in SeedOverrides :
          /\ \A o \in overrides :
                \E m \in members : m.user_id = o.user_id
          /\ db = [EmptyTables EXCEPT !.members = members,
                                      !.role_permissions = grants,
                                      !.member_permissions = overrides]
    /\ system_roles = {"owner", "member", "guest"}
    /\ CreateIdle
    /\ checked = NoCheck
    /\ applied = NotApplied
    /\ OutboxIdle

PermNext ==
    \E user_id \in {UserId(2), UserId(3)}, code \in PermissionCodes :
        HasPermission(SeedRoom, user_id, code)

PermSpec == PermInit /\ [][PermNext]_vars

\* One dispatcher instance, the first, runs.
OutboxNext ==
    \/ OutboxCreate
    \/ ProcessStart(1)
    \/ FetchPage(1)
    \/ PublishPage(1)

OutboxInit ==
    /\ db = EmptyTables
    /\ system_roles = {"owner", "member", "guest"}
    /\ CreateIdle
    /\ checked = NoCheck
    /\ applied = NotApplied
    /\ OutboxIdle

\* The event loop runs the periodic task whenever it is ready, and the
\* publisher fails a batch of an event at most MaxPublishFailures times.
FairOutboxSpec ==
    /\ OutboxInit
    /\ [][OutboxNext]_vars
    /\ WF_vars(ProcessStart(1))
    /\ WF_vars(FetchPage(1))
    /\ WF_vars(PublishPage(1))

\* Every dispatcher instance runs, interleaved with the others at each
\* statement that waits.
ConcurrentNext ==
    \/ OutboxCreate
    \/ \E i \in Instances : ProcessStart(i)
    \/ \E i \in Instances : FetchPage(i)
    \/ \E i \in Instances : PublishPage(i)

ConcurrentSpec == OutboxInit /\ [][ConcurrentNext]_vars

\* The dispatcher and the cleaner run over an outbox that holds failed
\* events.
WorkersNext ==
    \/ OutboxCreate
    \/ ProcessStart(1)
    \/ FetchPage(1)
    \/ PublishPage(1)
    \/ CleanupStart
    \/ CleanupPage


\* The outbox the cleaner meets: each of the events is absent, new or
\* failed.
CleanerInit ==
    /\ \E status \in [1..MaxEvents -> {"absent", "new", "failed"}] :
          db = [EmptyTables EXCEPT !.outbox =
                   {[OutboxRow(n) EXCEPT !.event_status = status[n]] :
                       n \in {k \in 1..MaxEvents : status[k] # "absent"}}]
    /\ system_roles = {"owner", "member", "guest"}
    /\ CreateIdle
    /\ checked = NoCheck
    /\ applied = NotApplied
    /\ OutboxIdle

CleanerNext ==
    \/ CleanupStart
    \/ CleanupPage

CleanerSpec == CleanerInit /\ [][CleanerNext]_vars

WorkersSpec == CleanerInit /\ [][WorkersNext]_vars

PureInit ==
    /\ db = EmptyTables
    /\ system_roles = {"owner", "member", "guest"}
    /\ CreateIdle
    /\ checked = NoCheck
    /\ applied = NotApplied
    /\ OutboxIdle

PureNext ==
    \/ ApplyTypeToSystemRoleMap
    \/ ApplyGetDefaultSystemRoleByRoom
    \/ ApplyDefineDefaultRole
    \/ ApplyPermissionCode
    \/ ApplyPrimitivesPermissionCode
    \/ ApplyDedupKey
    \/ ApplyRolePriority
    \/ ApplyPrepareOutboxEvent

PureSpec == PureInit /\ [][PureNext]_vars

RepositoryNext ==
    \/ \E room \in RoomCreates : RepositoryCreateStart(room)
    \/ RepositoryCreateFinish
    \/ ApplyAddRoomRolePermissions

RepositorySpec == PureInit /\ [][RepositoryNext]_vars

\* ------------------------------------------------------------ properties

RoomRows(room) == {r \in db.rooms : r.id = room}

MemberRows(room) == {m \in db.members : m.room_id = room}

OutboxRows(room) == {e \in db.outbox : e.aggregate_id = room}

\* The ways the specification lets a create call fail: a rejected command or
\* Room, a missing creator, a missing system role, a storage fault.
SpecifiedFailures ==
    {"ValidationError", "ValueError", "AttributeError", "ConflictError",
     "CreationError", "ReadingError"}

\* A handler call has finished without any of the specified failures.
HandledWithoutSpecifiedFailure ==
    /\ last.path = "handler"
    /\ last.outcome \notin SpecifiedFailures

\* C1: when a room creation has failed at any step, no Room, Member or
\* OutboxEvent row of that room is committed.
C1_FailedCreateLeavesNoRow ==
    \A room \in failed_rooms :
        /\ RoomRows(room) = {}
        /\ MemberRows(room) = {}
        /\ OutboxRows(room) = {}

\* A create call that had written its Room row has failed.
C1_FailedAfterWrite ==
    /\ last.outcome \notin {"none", "ok"}
    /\ last.wrote
    /\ last.room \in failed_rooms

\* C2: a create call that meets none of the specified failures commits, and
\* leaves exactly one OutboxEvent of status new, aggregate_type "Room" and
\* aggregate_id of the new room.
C2_CreateLeavesOneOutboxEvent ==
    HandledWithoutSpecifiedFailure =>
        /\ last.outcome = "ok"
        /\ Cardinality(OutboxRows(last.room)) = 1
        /\ \A e \in OutboxRows(last.room) :
              e.event_status = "new" /\ e.aggregate_type = "Room"

\* C7: a create call with n initial users that meets none of the specified
\* failures commits exactly n + 1 Member rows for the room.
C7_CreateCommitsAllMembers ==
    HandledWithoutSpecifiedFailure =>
        /\ RoomRows(last.room) # {}
        /\ Cardinality(MemberRows(last.room)) = Len(last.cmd.initial_users) + 1

\* C8: a create call that meets none of the specified failures commits a
\* room with exactly one member bound to the owner role, the creator.
C8_CreatedRoomHasCreatorAsOwner ==
    HandledWithoutSpecifiedFailure =>
        /\ RoomRows(last.room) # {}
        /\ {m.user_id : m \in {x \in MemberRows(last.room) : x.role = "owner"}}
              = {last.created_by}

\* C9: creating a direct room with a number of initial users other than one
\* fails with a validation error before any write.
C9_DirectNeedsOneInitialUser ==
    (/\ last.path # "none"
     /\ last.cmd.type = "direct"
     /\ Len(last.cmd.initial_users) # 1)
        => (last.outcome = "ValidationError" /\ ~last.wrote)

\* C10: a create command with more than MAX_INITIAL_USERS initial users is
\* rejected before any write.
C10_LongListRejectedBeforeWrite ==
    (/\ last.path # "none"
     /\ Len(last.cmd.initial_users) > MAX_INITIAL_USERS)
        => (last.outcome = "ValidationError" /\ ~last.wrote)

\* The member-level overrides of the checked member for the checked code.
CheckedOverrides(status) ==
    {o \in db.member_permissions :
        /\ o.room_id = checked.room_id
        /\ o.user_id = checked.user_id
        /\ o.code = checked.code
        /\ o.status = status}

\* The role grants of the checked member for the checked code.
CheckedRoleGrants ==
    {g \in db.role_permissions :
        /\ g.code = checked.code
        /\ \E m \in GetByRoomAndUser(checked.room_id, checked.user_id) :
              m.role = g.role}

\* C4: has_permission is false whenever the member has a deny override for
\* the code, whatever the role or the member is granted.
C4_DenyOverridesGrant ==
    (checked.result # "none" /\ CheckedOverrides("deny") # {})
        => checked.result = "false"

\* C5: has_permission is false, and raises nothing, for a user without an
\* active membership in the room: no row, or a row that is muted or banned.
C5_NoActiveMembershipIsFalse ==
    (checked.result # "none" /\ checked.member # "active")
        => checked.result = "false"

\* C6: for an active member without a deny override for the code,
\* has_permission is true exactly when the role or the member is granted
\* the code, and false otherwise.
C6_GrantedExactlyWhenRoleOrMemberGrants ==
    (/\ checked.result # "none"
     /\ checked.member = "active"
     /\ CheckedOverrides("deny") = {})
        => checked.result =
              IF CheckedRoleGrants # {} \/ CheckedOverrides("grant") # {}
              THEN "true" ELSE "false"

\* C3: every event committed to the outbox is eventually accepted by the
\* publisher, unless the batches holding it failed MAX_OUTBOX_RETRIES times.
C3_CommittedEventEventuallyPublished ==
    \A n \in 1..MaxEvents :
        (\E r \in db.outbox : r.event_id = EventId(n))
            ~> (\/ EventId(n) \in sink
                \/ batch_failures[EventId(n)] >= MAX_OUTBOX_RETRIES)

\* The functions that give the default role of a room type.
DefaultRoleFunctions ==
    {"TYPE_TO_SYSTEM_ROLE_MAP", "get_default_system_role_by_room",
     "_define_default_role"}

\* C11: the default-role lookup gives "member" for direct and group rooms and
\* "guest" for channel rooms, a role for each of the three types.
C11_DefaultRoleOfEveryType ==
    applied.fn \in DefaultRoleFunctions =>
        applied.out = IF applied.arg = "channel" THEN "guest" ELSE "member"

\* The parts of a code that are not empty.
NonEmptyParts(code) == SelectSeq(Split(code, ":"), LAMBDA part : part # <<>>)

\* C20: PermissionCode accepts a string exactly when it has a ':' and at
\* least two non-empty parts between colons, and an accepted string keeps
\* its value.
C20_PermissionCodeAcceptsTwoNonEmptyParts ==
    applied.fn \in {"PermissionCode", "primitives.PermissionCode"} =>
        /\ (applied.out.raised = NULL) <=>
              (/\ \E i \in 1..Len(applied.arg) : applied.arg[i] = ":"
               /\ Len(NonEmptyParts(applied.arg)) >= 2)
        /\ applied.out.raised = NULL => applied.out.value = applied.arg

\* C12: the grants written for a RoomRole are of permission codes of the
\* reference data; permissions with a code absent from it raise and write
\* no grant, and a creation that was aborted leaves no Room row.
C12_GrantsWithinReferenceData ==
    /\ applied.fn = "__add_room_role_permissions" =>
          /\ \A g \in applied.out.rows : g.code \in ReferencePermissionCodes
          /\ (\E p \in Range(applied.arg) : p.code \notin ReferencePermissionCodes)
                => (applied.out.raised = "ValueError" /\ applied.out.rows = {})
    /\ \A g \in db.room_role_permissions : g.code \in ReferencePermissionCodes
    /\ \A room \in failed_rooms : RoomRows(room) = {}

\* Permissions with an absent code were refused, and a creation whose roles
\* refer to an absent code was aborted after its Room had been added.
C12_AbsentCodeAborted ==
    /\ applied.fn = "__add_room_role_permissions"
    /\ \E p \in Range(applied.arg) : p.code = AbsentCode
    /\ applied.out.raised = "ValueError"
    /\ last.path = "repository"
    /\ \E role \in Range(last.cmd.roles) :
          \E p \in Range(role.permissions) : p.code = AbsentCode
    /\ last.outcome # "ok"
    /\ last.wrote

\* C13: no two committed rooms share a slug that is not null.
C13_SlugUnique ==
    \A r1, r2 \in db.rooms : (r1.slug = r2.slug /\ r1.slug # NULL) => r1 = r2

\* A user is twice among the members the handler builds: the creator is
\* among the initial users, or one initial user is there twice.
MemberTwice(cmd, created_by) ==
    \/ \E i \in DOMAIN cmd.initial_users : cmd.initial_users[i] = created_by
    \/ \E i, j \in DOMAIN cmd.initial_users :
          i # j /\ cmd.initial_users[i] = cmd.initial_users[j]

\* C14: there is at most one Member row per user and room, and a create
\* call whose members hold a user twice, when nothing else has failed it
\* before, fails with a conflict and leaves no row of that room.
C14_MemberOncePerRoom ==
    /\ \A m1, m2 \in db.members :
          (m1.user_id = m2.user_id /\ m1.room_id = m2.room_id) => m1 = m2
    /\ (/\ last.path = "handler"
        /\ last.outcome \notin (SpecifiedFailures \ {"ConflictError"})
        /\ MemberTwice(last.cmd, last.created_by))
          => /\ last.outcome = "ConflictError"
             /\ RoomRows(last.room) = {}
             /\ MemberRows(last.room) = {}
             /\ OutboxRows(last.room) = {}

\* C15: once a batch has been published, its events are gone from the
\* outbox, so no later cycle can select them: no row of the outbox is of an
\* event the publisher has accepted.
C15_PublishedEventDeleted ==
    \A r \in db.outbox : r.event_id \notin sink

\* The events whose batch failed to be published in this step.
FailedNow(e) == batch_failures'[e] # batch_failures[e]

\* C16: a step in which the publication of a batch fails leaves every event
\* of the batch in the outbox, pending, with retries one higher.
C16_FailedBatchPendingAndRetried ==
    [][\A r \in db.outbox :
          FailedNow(r.event_id) =>
              \E u \in db'.outbox :
                  /\ u.id = r.id
                  /\ u.event_status = "pending"
                  /\ u.retries = r.retries + 1]_vars

\* C17: an event whose batches failed MAX_OUTBOX_RETRIES times, or whose
\* retries counter is that high, has status failed (and so is in no batch
\* of the dispatcher, which reads new and pending rows only).
C17_ExhaustedEventIsFailed ==
    \A r \in db.outbox :
        (\/ r.retries >= MAX_OUTBOX_RETRIES
         \/ batch_failures[r.event_id] >= MAX_OUTBOX_RETRIES)
            => r.event_status = "failed"

\* C18: when a run of the cleaner has ended, no failed event is left in the
\* outbox (so a second run finds none and changes nothing).
C18_RunRemovesEveryFailedEvent ==
    (cleaner.pc = "sleeping" /\ cleaner.runs >= 1)
        => \A r \in db.outbox : r.event_status # "failed"

\* C19: whenever the key of an event is read, for any delivery, it is the
\* key the event had when it was created.
C19_DedupKeyFixedAtCreation ==
    applied.fn = "dedup_key"
        => applied.out = dedup_key(applied.arg.event, applied.arg.event.created_at)

CycleEnded(i) ==
    /\ dispatcher[i].pc \in {"sleeping", "dead"}
    /\ cycle[i].selected # <<>>

\* No event was appended since the cycle of instance i started.
NoAppend(i) == {r.event_id : r \in db.outbox} \subseteq cycle[i].present

\* The places of the batches of the cycle of instance i that hold event e.
Published(i, e) ==
    {<<k, j>> \in (DOMAIN cycle[i].batches) \X (1..BatchSize) :
        /\ j \in DOMAIN cycle[i].batches[k]
        /\ cycle[i].batches[k][j].event_id = e}

\* The exceptions the repository raises for a storage error.
StorageErrors == {"DeletionError", "UpdateError"}

\* C22: a cycle that started with N events to process, during which none
\* was appended and the storage did not fail, has made ceil(N / BatchSize)
\* publish calls, and each of the N events is in exactly one of the
\* batches.
C22_CyclePublishesEveryEventOnce ==
    (CycleEnded(1) /\ NoAppend(1) /\ cycle[1].raised \notin StorageErrors) =>
        /\ Len(cycle[1].batches) = total_pages(Len(cycle[1].selected), BatchSize)
        /\ \A k \in DOMAIN cycle[1].selected :
              Cardinality(Published(1, cycle[1].selected[k].event_id)) = 1

\* C23: in no step of the dispatcher or the cleaner does the retries
\* counter of an event go down, and an event that is failed stays as it is
\* for as long as it is in the outbox.
C23_RetriesMonotoneFailedFrozen ==
    [][\A r \in db.outbox : \A u \in db'.outbox :
          u.id = r.id =>
              /\ u.retries >= r.retries
              /\ r.event_status = "failed" => u = r]_vars

\* Next to a failed event, the events of a batch whose publication failed
\* have been updated, and the cleaner has run.
C23_UpdatedNextToFailed ==
    /\ \E r \in db.outbox : r.event_status = "failed"
    /\ \E r \in db.outbox :
          r.event_status = "pending" /\ batch_failures[r.event_id] >= 1
    /\ cleaner.runs >= 1

\* C24: with the dispatcher instances interleaved, a step removes only
\* events the publisher has accepted, and a step in which a publication
\* fails raises the retries of each event of the batch by one.
C24_ConcurrentDispatchersOnlyDuplicate ==
    [][\A r \in db.outbox :
          /\ (\A u \in db'.outbox : u.id # r.id) => r.event_id \in sink'
          /\ FailedNow(r.event_id) =>
                \E u \in db'.outbox : u.id = r.id /\ u.retries = r.retries + 1]_vars

\* C25: a cycle in which the deletion or the update of a batch met a storage
\* error does not end the periodic task.
C25_StorageErrorKeepsTaskAlive ==
    cycle[1].raised \in StorageErrors => dispatcher[1].pc # "dead"

\* C26: a step of the cleaner leaves every new or pending event in the
\* outbox as it is, and a run that finds no failed event ends at once with
\* the outbox untouched.
C26_CleanerTouchesFailedOnly ==
    [][cleaner' # cleaner =>
          /\ \A r \in db.outbox :
                r.event_status \in OUTBOX_PROCESSOR_STATUSES => r \in db'.outbox
          /\ GetCountByStatus(OUTBOX_CLEANUP_STATUSES) = 0 =>
                (db' = db /\ cleaner'.pc = "sleeping")]_vars

\* The cleaner has ended a run over an outbox that holds failed events
\* next to new or pending ones.
C26_RunNextToLiveEvents ==
    /\ cleaner.pc = "sleeping"
    /\ cleaner.runs >= 1
    /\ \E r \in db.outbox : r.event_status = "failed"
    /\ \E r \in db.outbox : r.event_status \in OUTBOX_PROCESSOR_STATUSES

\* C27: the batches of a cycle are ordered oldest first: within a batch
\* created_at ascends, and every event that could be selected when the
\* cycle started and is older than a published one is in the same batch or
\* in an earlier one.
C27_PublishedOldestFirst ==
    \A k \in DOMAIN cycle[1].batches :
        LET batch == cycle[1].batches[k]
        IN  /\ \A j1, j2 \in DOMAIN batch :
                  j1 < j2 => batch[j1].created_at <= batch[j2].created_at
            /\ \A j \in DOMAIN batch : \A n \in DOMAIN cycle[1].selected :
                  cycle[1].selected[n].created_at < batch[j].created_at
                      => \E place \in Published(1, cycle[1].selected[n].event_id) :
                            place[1] <= k

\* A cycle has published two batches, the first of more than one event.
C27_TwoBatchesPublished ==
    /\ Len(cycle[1].batches) >= 2
    /\ Len(cycle[1].batches[1]) >= 2
    /\ Len(cycle[1].batches[2]) >= 1

\* C29: a step of the dispatcher removes an event from the outbox only if
\* the publisher has accepted it, in this step or before.
C29_DeletedOnlyAfterPublish ==
    [][dispatcher' # dispatcher =>
          \A r \in db.outbox :
              (\A u \in db'.outbox : u.id # r.id) => r.event_id \in sink']_vars

\* A batch has been published and handed to bulk_delete while an event that
\* was never published is in the outbox.
C29_DeleteNextToUnpublished ==
    /\ cycle[1].batches # <<>>
    /\ cycle[1].raised = NULL
    /\ \E e \in sink : Published(1, e) # {}
    /\ \E r \in db.outbox : r.event_id \notin sink

\* C30: a handler call with a direct command that passes the command
\* validation, with one initial user other than the creator, commits the
\* room with its two members.
C30_DirectRoomCommitted ==
    (/\ last.path = "handler"
     /\ last.cmd.type = "direct"
     /\ CoreCommandValid(last.cmd)
     /\ last.created_by # NULL
     /\ ~MemberTwice(last.cmd, last.created_by))
        => /\ last.outcome = "ok"
           /\ RoomRows(last.room) # {}
           /\ Cardinality(MemberRows(last.room)) = 2

\* C28: the snapshot built for a created room is built without error, and
\* its member list is the creator and every initial user.
C28_SnapshotHoldsAllMembers ==
    applied.fn = "_prepare_outbox_event" =>
        /\ applied.out.raised = NULL
        /\ \A p \in applied.out.payload :
              {p.members[i].user_id : i \in DOMAIN p.members}
                  = {applied.arg.initial_members[i].user_id :
                        i \in DOMAIN applied.arg.initial_members}

=============================================================================
